---- MODULE Spec2Model ----
(***************************************************************************)
(* pyannote.audio.labeling.extraction.SequenceLabeling                     *)
(*                                                                         *)
(* Time is counted in frames of the native frame grid: frame i is centred  *)
(* on time i, so that the closest frame of an integer time t is t and a    *)
(* duration of d time units spans d frames.  A signal of length L has      *)
(* frames 0 .. L-1.                                                        *)
(*                                                                         *)
(* The collaborators are modelled by what the calls in extraction.py rely  *)
(* on: cachetools.LRUCache (membership does not refresh an entry, reading  *)
(* and storing do, storing into a full cache drops the least recently used *)
(* entry, reading a missing key raises KeyError); SlidingSegments (windows *)
(* of `duration` every `step` that lie within the signal, then, with a     *)
(* min_duration, what is left of the next window when it is longer than    *)
(* min_duration);                                                          *)
(* FileBasedBatchGenerator.from_file (preprocess once, then the processed  *)
(* windows packed batch_size at a time, the trailing smaller batch only    *)
(* when incomplete); SlidingWindow.crop in mode 'center' with a fixed      *)
(* duration (the frames from the one closest to the start of the segment), *)
(* the same crop of a feature series (moved inward when it would run past  *)
(* the last frame of the series); numpy (in-place addition on an int8      *)
(* array wraps around, an index beyond the last row raises IndexError).    *)
(***************************************************************************)
EXTENDS Integers, Sequences, FiniteSets, TLC

\* extraction.py:31
CACHE_MAXSIZE == 12

\* ------------------------------------------------------------- bounds
\* signal identifiers of the corpus
NumUris == 13
\* calls of a run of Spec that are not the first, successful, on-demand
\* processing of the next unused signal
MaxRepeats == 1
\* signal identifiers a run of SpecGrid draws from
GridUris == 1
\* longest signal (in frames) of the small configurations of SpecGrid
MaxLength == 6
\* largest window duration / step / batch size of the small configurations
MaxDuration == 3
MaxStep == 3
MaxBatch == 2
\* feature values are 0 .. FeatureLevels-1
FeatureLevels == 2

\* width of the overlap counter k: np.int8 (extraction.py:228)
Int8Bits == 8

Uris == 1 .. NumUris

VARIABLES
    cfg,            \* pipeline -> constructor arguments (immutable)
    corpus,         \* uri -> length of the signal, in frames (immutable)
    preprocessed_,  \* pipeline -> the attribute self.preprocessed_
    call,           \* the last call: operation, pipeline, file, extractor outcome
    result,         \* what the last call returned or raised
    stats,          \* what the last call did: extractions, model invocations, ...
    log,            \* uris whose cache entry was read (after a miss or on a hit), in order
    repeats,        \* calls counted against MaxRepeats
    first           \* the first apply of the run: its call and its result

vars == <<cfg, corpus, preprocessed_, call, result, stats, log, repeats, first>>

\* ------------------------------------------------------------ helpers
Min(a, b) == IF a < b THEN a ELSE b
Max(a, b) == IF a > b THEN a ELSE b

\* value of x stored in a signed integer of Int8Bits bits (two's complement)
Int8(x) == ((x + 2 ^ (Int8Bits - 1)) % (2 ^ Int8Bits)) - 2 ^ (Int8Bits - 1)

\* ------------------------------------------------------ the LRU cache
\* cachetools.LRUCache as used by preprocess and apply.  items is ordered
\* from least to most recently used.
NoCache == [exists |-> FALSE, items |-> <<>>]

\* LRUCache(maxsize=CACHE_MAXSIZE)
NewCache == [exists |-> TRUE, items |-> <<>>]

\* (mutant) every lookup is a miss
ContainsMutant(c, uri) == FALSE

\* uri in self.preprocessed_ : membership does not touch the order
Contains(c, uri) == \E i \in 1 .. Len(c.items) : c.items[i].uri = uri

Position(c, uri) == CHOOSE i \in 1 .. Len(c.items) : c.items[i].uri = uri

Without(items, i) == [j \in 1 .. (Len(items) - 1) |->
                          IF j < i THEN items[j] ELSE items[j + 1]]

\* (mutant) reading an entry does not refresh it
GetItemMutant(c, uri) == c

\* self.preprocessed_[uri] : the value, and the entry becomes the most recent
GetItem(c, uri) ==
    LET i == Position(c, uri)
    IN  [c EXCEPT !.items = Append(Without(c.items, i), c.items[i])]

Lookup(c, uri) == c.items[Position(c, uri)].features

\* popitem of an LRUCache: drops the least recently used entry
PopItem(items) == Tail(items)

RECURSIVE MakeRoom(_, _)
MakeRoom(items, maxsize) ==
    IF Len(items) + 1 > maxsize
    THEN MakeRoom(PopItem(items), maxsize)
    ELSE items

\* (mutant) a plain dict: nothing is evicted
SetItemMutant(c, uri, features) ==
    [c EXCEPT !.items = Append(c.items, [uri |-> uri, features |-> features])]

\* self.preprocessed_[uri] = features
SetItem(c, uri, features) ==
    IF Contains(c, uri)
    THEN LET i == Position(c, uri)
         IN  [c EXCEPT !.items = Append(Without(c.items, i),
                                        [uri |-> uri, features |-> features])]
    ELSE [c EXCEPT !.items = Append(MakeRoom(c.items, CACHE_MAXSIZE),
                                    [uri |-> uri, features |-> features])]

\* ------------------------------------------------------------- files
\* A file (current_file) has a unique identifier and, optionally, an
\* embedded feature series under the key "features" (<<>> when absent).
\* A feature series is known by where it comes from, the signal it
\* describes and its number of frames.
Series(src, uri, n) == [src |-> src, uri |-> uri, n_frames |-> n]

PlainFile(uri) == [uri |-> uri, features |-> <<>>]

EmbeddedFile(uri, n) == [uri |-> uri, features |-> <<Series("embedded", uri, n)>>]

\* 'features' in current_file
HasFeatures(file) == file.features # <<>>

\* get_unique_identifier(current_file)
get_unique_identifier(file) == file.uri

\* self.feature_extraction(current_file): the series of the whole signal
Extract(file) == Series("extracted", file.uri, corpus[file.uri])

\* the feature vector of frame i of a series (one number stands for it)
Feature(series, i) ==
    (series.uri + i + (IF series.src = "embedded" THEN 1 ELSE 0)) % FeatureLevels

\* ------------------------------------------------------- preprocess
\* SequenceLabeling.preprocess.  ok tells whether feature_extraction, if
\* invoked, returns (TRUE) or raises (FALSE).  The value is the returned
\* file, the cache afterwards, whether the call raised, and the events of
\* the call in order.
Preprocessed(raised, file, cache, events) ==
    [raised |-> raised, file |-> file, cache |-> cache, events |-> events]

\* (mutant) the entry is stored although the extractor raised
FailedMutant(file, cache, events) ==
    Preprocessed(TRUE, file, SetItem(cache, file.uri, Extract(file)), events)

\* line 141 raises: line 142 is not reached
Failed(file, cache, events) == Preprocessed(TRUE, file, cache, events)

preprocess(p, file, ok) ==
    LET c0 == preprocessed_[p]
        uri == get_unique_identifier(file)
    IN  IF cfg[p].precomputed
        THEN Preprocessed(FALSE, file, c0, <<>>)
        ELSE IF HasFeatures(file)
        THEN Preprocessed(FALSE, file, c0, <<>>)
        ELSE LET c1 == IF c0.exists THEN c0 ELSE NewCache
                 e1 == IF c0.exists THEN <<>> ELSE <<"create">>
             IN  IF ~Contains(c1, uri)
                 THEN IF ok
                      THEN LET c2 == SetItem(c1, uri, Extract(file))
                               c3 == GetItem(c2, uri)
                           IN  Preprocessed(FALSE,
                                   [file EXCEPT !.features = <<Lookup(c2, uri)>>],
                                   c3,
                                   e1 \o <<"contains", "extract", "setitem", "getitem">>)
                      ELSE Failed(file, c1, e1 \o <<"contains", "extract">>)
                 ELSE Preprocessed(FALSE,
                          [file EXCEPT !.features = <<Lookup(c1, uri)>>],
                          GetItem(c1, uri),
                          e1 \o <<"contains", "getitem">>)

\* ---------------------------------------------------- sliding windows
\* SlidingSegments(duration, step, min_duration, source='audio')
\* .from_file(file): the windows [start, start + duration) with start =
\* 0, step, 2 step, ... that lie within the signal, in order; none when the
\* signal is shorter than duration.
\* (mutant) a last window that starts within the signal and ends beyond
NumSegmentsMutant(length, duration, step) ==
    IF length < duration THEN 0
    ELSE ((length - duration + step - 1) \div step) + 1

NumSegments(length, duration, step) ==
    IF length < duration THEN 0 ELSE ((length - duration) \div step) + 1

\* min_duration (lines 52-55): after the full windows, the part of the next
\* window that lies within the signal, when it is longer than min_duration
\* (min_duration is <<>> when None: full windows only)
ShortSegment(length, duration, step, min_duration) ==
    LET start == NumSegments(length, duration, step) * step
    IN  IF min_duration # <<>> /\ length - start > min_duration[1]
        THEN <<[start |-> start, end |-> length]>>
        ELSE <<>>

Segments(p, file) ==
    [i \in 1 .. NumSegments(corpus[file.uri], cfg[p].duration, cfg[p].step) |->
        [start |-> (i - 1) * cfg[p].step,
         end   |-> (i - 1) * cfg[p].step + cfg[p].duration]]
    \o ShortSegment(corpus[file.uri], cfg[p].duration, cfg[p].step,
                    cfg[p].min_duration)

\* SlidingWindow(duration=self.duration, step=self.step)[i], i = 0, 1, ...
Subsequence(p, i) ==
    [start |-> i * cfg[p].step, end |-> i * cfg[p].step + cfg[p].duration]

\* frames.crop(segment, mode='center', fixed=duration): the indices of the
\* `fixed` frames from the frame closest to the start of the segment
CropIndices(segment, fixed) == [j \in 1 .. fixed |-> segment.start + j - 1]

\* SequenceLabeling._process: the features of the window, one per frame.
\* The series is the "features" of the file when it has some, else what
\* the Precomputed extractor holds for the file.
SeriesOf(file) ==
    IF HasFeatures(file)
    THEN file.features[1]
    ELSE Series("precomputed", file.uri, corpus[file.uri])

\* features.crop(segment, mode='center', fixed=duration): the indices of
\* the `fixed` frames of a series of n frames from the frame closest to the
\* start of the segment, moved inward when they would run past the last
\* frame (and the last frame again when the series has fewer than `fixed`)
MaterialIndices(segment, fixed, n) ==
    [j \in 1 .. fixed |->
        Max(0, Min(Min(segment.start, n - fixed) + j - 1, n - 1))]

process(p, segment, file) ==
    LET indices == MaterialIndices(segment, cfg[p].duration, SeriesOf(file).n_frames)
    IN  [j \in 1 .. cfg[p].duration |-> Feature(SeriesOf(file), indices[j])]

\* ------------------------------------------------------------- model
\* hasattr(model, 'n_classes'), hasattr(model, 'output_dim'): an attribute
\* is <<>> when the model has none, <<n>> otherwise.
\* SequenceLabeling.dimension: <<>> stands for the ValueError.
dimension(p) ==
    IF cfg[p].model.n_classes # <<>>
    THEN cfg[p].model.n_classes
    ELSE IF cfg[p].model.output_dim # <<>>
    THEN cfg[p].model.output_dim
    ELSE <<>>

\* the number of scores the model returns for a frame
Width(p) == cfg[p].model.width

\* the score of class c the model gives to a frame of feature x: the
\* model scores each frame of each window on its own
Score(x, c) == x + c

\* SequenceLabeling._pack: one invocation of the model on the stacked
\* sequences; one (duration x width) array of scores per sequence
pack(p, sequences) ==
    [w \in 1 .. Len(sequences) |->
        [j \in 1 .. Len(sequences[w]) |->
            [c \in 1 .. Width(p) |-> Score(sequences[w][j], c)]]]

\* (mutant) the trailing smaller batch is yielded whatever the flag
NumBatchesMutant(n, batch_size, incomplete) ==
    (n \div batch_size) + (IF n % batch_size > 0 THEN 1 ELSE 0)

\* FileBasedBatchGenerator.from_file(file, incomplete) after preprocess:
\* the processed windows in batches of batch_size, each packed; the
\* trailing smaller batch only when incomplete.
NumBatches(n, batch_size, incomplete) ==
    (n \div batch_size) + (IF incomplete /\ n % batch_size > 0 THEN 1 ELSE 0)

\* (mutant) every batch starts again at the first window
from_fileMutant(p, file, incomplete) ==
    LET segments == Segments(p, file)
        n == Len(segments)
        b == cfg[p].batch_size
    IN  [i \in 1 .. NumBatches(n, b, incomplete) |->
            pack(p, [w \in 1 .. (Min(i * b, n) - (i - 1) * b) |->
                        process(p, segments[w], file)])]

from_file(p, file, incomplete) ==
    LET segments == Segments(p, file)
        n == Len(segments)
        b == cfg[p].batch_size
    IN  [i \in 1 .. NumBatches(n, b, incomplete) |->
            pack(p, [w \in 1 .. (Min(i * b, n) - (i - 1) * b) |->
                        process(p, segments[(i - 1) * b + w], file)])]

\* np.vstack(batches)
RECURSIVE vstack(_)
vstack(batches) ==
    IF batches = <<>> THEN <<>> ELSE Head(batches) \o vstack(Tail(batches))

\* ------------------------------------------------------------- apply
\* What a call returns or raises.
Raise(error) ==
    [kind |-> "error", error |-> error, n_frames |-> 0, dimension |-> 0,
     data |-> <<>>]

\* SlidingWindowFeature(data, frames): data[f][c] for frame f = 0 .. n-1
Grid(n, d, data) ==
    [kind |-> "grid", error |-> "", n_frames |-> n, dimension |-> d,
     data |-> data]

Outcome(res, cache, events) == [result |-> res, cache |-> cache, events |-> events]

\* np.zeros((n_frames, dimension), float32) and np.zeros((n_frames, 1), int8)
Zeros(n_frames, dim) ==
    [raised |-> FALSE,
     data   |-> [f \in 0 .. (n_frames - 1) |-> [c \in 1 .. dim |-> 0]],
     k      |-> [f \in 0 .. (n_frames - 1) |-> 0]]

\* one turn of the loop: data[indices] += fX_ ; k[indices] += 1
\* (an index beyond the last frame raises IndexError)
Accumulate(acc, indices, fX_) ==
    IF \E j \in DOMAIN indices : indices[j] \notin DOMAIN acc.k
    THEN [acc EXCEPT !.raised = TRUE]
    ELSE [raised |-> FALSE,
          data   |-> [f \in DOMAIN acc.data |->
                        IF (f - indices[1] + 1) \in DOMAIN indices
                        THEN [c \in DOMAIN acc.data[f] |->
                                acc.data[f][c] + fX_[f - indices[1] + 1][c]]
                        ELSE acc.data[f]],
          k      |-> [f \in DOMAIN acc.k |->
                        IF (f - indices[1] + 1) \in DOMAIN indices
                        THEN Int8(acc.k[f] + 1)
                        ELSE acc.k[f]]]

\* for subsequence, fX_ in zip(subsequences, fX)
RECURSIVE Loop(_, _, _, _)
Loop(p, acc, i, fX) ==
    IF i > Len(fX) \/ acc.raised
    THEN acc
    ELSE Loop(p,
              Accumulate(acc, CropIndices(Subsequence(p, i - 1), cfg[p].duration),
                         fX[i]),
              i + 1, fX)

\* (mutant) the divisor has no floor of 1
DivisorMutant(k) == Max(k, 0)

\* np.maximum(k, 1)
Divisor(k) == Max(k, 1)

\* a / b, kept exact
Quotient(a, b) == [num |-> a, den |-> b]

\* data / np.maximum(k, 1)
Average(acc) ==
    [f \in DOMAIN acc.data |->
        [c \in DOMAIN acc.data[f] |-> Quotient(acc.data[f][c], Divisor(acc.k[f]))]]

\* lines 244-247, after the loop
Averaged(p, acc, n_frames, cache, events) ==
    IF acc.raised
    THEN Outcome(Raise("IndexError"), cache, events)
    ELSE Outcome(Grid(n_frames, dimension(p)[1], Average(acc)), cache, events)

\* lines 224-247: the grid of n_frames frames from the scores fX
Aggregate(p, fX, n_frames, cache, events) ==
    IF dimension(p) = <<>>
    THEN Outcome(Raise("ValueError"), cache, events \o <<"dimension">>)
    ELSE Averaged(p, Loop(p, Zeros(n_frames, dimension(p)[1]), 1, fX),
                  n_frames, cache, events \o <<"dimension">>)

\* (mutant) the empty case is not told apart
EmptyMutant(batches) == FALSE

\* if not batches
Empty(batches) == batches = <<>>

\* lines 205-222, after self.from_file(...) has preprocessed the file
Scored(p, file, pre, batches) ==
    LET uri == get_unique_identifier(file)
        events == pre.events \o [i \in 1 .. Len(batches) |-> "model"]
    IN  IF Empty(batches)
        THEN IF dimension(p) = <<>>
             THEN Outcome(Raise("ValueError"), pre.cache, events \o <<"dimension">>)
             ELSE Outcome(Grid(0, dimension(p)[1], <<>>), pre.cache,
                          events \o <<"dimension">>)
        ELSE IF cfg[p].precomputed
        THEN Aggregate(p, vstack(batches), corpus[uri], pre.cache,
                       events \o <<"lookup", "shape">>)
        ELSE IF ~pre.cache.exists
        THEN Outcome(Raise("AttributeError"), pre.cache, events \o <<"lookup">>)
        ELSE IF ~Contains(pre.cache, uri)
        THEN Outcome(Raise("KeyError"), pre.cache, events \o <<"lookup", "missing">>)
        ELSE Aggregate(p, vstack(batches), Lookup(pre.cache, uri).n_frames,
                       GetItem(pre.cache, uri), events \o <<"lookup", "getitem">>)

\* SequenceLabeling.apply
Preprocessing(p, file, pre) ==
    IF pre.raised
    THEN Outcome(Raise("ExtractionError"), pre.cache, pre.events)
    ELSE Scored(p, file, pre, from_file(p, pre.file, TRUE))

apply(p, file, ok) == Preprocessing(p, file, preprocess(p, file, ok))

\* the batches of scores of a file, stacked: one row per scored window
Scores(fX) ==
    [kind |-> "scores", error |-> "", n_frames |-> 0, dimension |-> 0,
     data |-> fX]

\* [batch for batch in self.from_file(current_file, incomplete)]
Batched(pre, batches) ==
    Outcome(Scores(vstack(batches)), pre.cache,
            pre.events \o [i \in 1 .. Len(batches) |-> "model"])

Generated(p, pre, incomplete) ==
    IF pre.raised
    THEN Outcome(Raise("ExtractionError"), pre.cache, pre.events)
    ELSE Batched(pre, from_file(p, pre.file, incomplete))

\* --------------------------------------------------------- operations
\* the "features" entry of the file preprocess returns
Returned(file) ==
    [kind |-> "file", error |-> "", n_frames |-> 0, dimension |-> 0,
     data |-> file.features]

Called(op, p, file, ok) == [op |-> op, p |-> p, file |-> file, ok |-> ok]

\* (mutant) one cache for all the pipelines
CommitMutant(op, p, file, ok, out) ==
    /\ preprocessed_' = [q \in DOMAIN preprocessed_ |-> out.cache]
    /\ call' = Called(op, p, file, ok)
    /\ result' = out.result
    /\ stats' = out.events
    /\ first' = IF first = <<>> /\ op = "apply"
                THEN <<[call |-> call', result |-> result']>>
                ELSE first
    /\ UNCHANGED <<cfg, corpus>>

\* the state after a call of apply or preprocess that did `out`: the
\* cache is an attribute of the instance (self.preprocessed_)
Commit(op, p, file, ok, out) ==
    /\ preprocessed_' = [preprocessed_ EXCEPT ![p] = out.cache]
    /\ call' = Called(op, p, file, ok)
    /\ result' = out.result
    /\ stats' = out.events
    /\ first' = IF first = <<>> /\ op = "apply"
                THEN <<[call |-> call', result |-> result']>>
                ELSE first
    /\ UNCHANGED <<cfg, corpus>>

\* labeler.apply(file)
Apply(p, file, ok) == Commit("apply", p, file, ok, apply(p, file, ok))

\* the batch generator run as it was constructed (line 85), outside apply:
\* the batches of labeler.from_file(file, incomplete=labeler.incomplete)
Generate(p, file, ok) ==
    Commit("from_file", p, file, ok,
           Generated(p, preprocess(p, file, ok), cfg[p].incomplete))

\* what a call of preprocess did
Direct(pre) ==
    Outcome(IF pre.raised THEN Raise("ExtractionError") ELSE Returned(pre.file),
            pre.cache, pre.events)

\* labeler.preprocess(file)
Preprocess(p, file, ok) ==
    Commit("preprocess", p, file, ok, Direct(preprocess(p, file, ok)))

\* ------------------------------------------------------ configurations
Model(n_classes, output_dim, width) ==
    [n_classes |-> n_classes, output_dim |-> output_dim, width |-> width]

\* SequenceLabeling(model, feature_extraction, duration, step, batch_size):
\* min_duration is None, and the generator is constructed with
\* incomplete=False (line 85)
Config(precomputed, duration, step, batch_size, model) ==
    [precomputed |-> precomputed, duration |-> duration, step |-> step,
     batch_size |-> batch_size, model |-> model, min_duration |-> <<>>,
     incomplete |-> FALSE]

\* SequenceLabeling(..., min_duration=m)
WithMinDuration(c, m) == [c EXCEPT !.min_duration = <<m>>]

Models ==
    {Model(<<2>>, <<>>, 2), Model(<<>>, <<1>>, 1), Model(<<2>>, <<1>>, 2),
     Model(<<>>, <<>>, 1)}

NoCall == Called("none", 1, PlainFile(1), TRUE)

Start ==
    /\ preprocessed_ = [p \in DOMAIN cfg |-> NoCache]
    /\ call = NoCall
    /\ result = Raise("none")
    /\ stats = <<>>
    /\ log = <<>>
    /\ repeats = 0
    /\ first = <<>>

\* ------------------------------------------------- Spec: the cache
\* One pipeline with on-demand extraction over a corpus of NumUris signals
\* of 2 or 3 frames.  A run processes the signals 1, 2, ... in this order
\* (the order of first use names the signals), and makes up to MaxRepeats
\* other calls in between, of apply or of preprocess: on a signal already
\* used or on the next one, with or without embedded features, with the
\* extractor failing or not.
Init ==
    /\ cfg = [p \in {1} |-> Config(FALSE, 2, 1, 2, Model(<<2>>, <<>>, 2))]
    /\ corpus = [u \in Uris |-> 2 + (u % 2)]
    /\ Start

Used == {log[i] : i \in 1 .. Len(log)}

NextUri == Cardinality(Used) + 1

\* the events of a call, as a set
Events(events) == {events[i] : i \in 1 .. Len(events)}

\* what a call adds to the log: its uri, when the call read the entry of
\* the uri in the cache (line 149 or line 222)
Served(file, events) ==
    IF "getitem" \in Events(events) THEN <<file.uri>> ELSE <<>>

Files(uri) == {PlainFile(uri), EmbeddedFile(uri, corpus[uri])}

NewApply ==
    /\ NextUri <= NumUris
    /\ Apply(1, PlainFile(NextUri), TRUE)
    /\ log' = log \o Served(PlainFile(NextUri), stats')
    /\ UNCHANGED repeats

OtherApply ==
    /\ repeats < MaxRepeats
    /\ \E uri \in 1 .. Min(NextUri, NumUris), ok \in BOOLEAN :
         \E file \in Files(uri) :
            /\ ~(file = PlainFile(NextUri) /\ ok)
            /\ Apply(1, file, ok)
            /\ log' = log \o Served(file, stats')
    /\ repeats' = repeats + 1

OtherPreprocess ==
    /\ repeats < MaxRepeats
    /\ \E uri \in 1 .. Min(NextUri, NumUris), ok \in BOOLEAN :
         \E file \in Files(uri) :
            /\ Preprocess(1, file, ok)
            /\ log' = log \o Served(file, stats')
    /\ repeats' = repeats + 1

Next == NewApply \/ OtherApply \/ OtherPreprocess

Spec == Init /\ [][Next]_vars

\* ------------------------------------------------ SpecGrid: the grid
\* One pipeline, precomputed or on-demand, over signals of one length.
\* The small configurations take every duration, step, batch size and
\* signal length up to the bounds with a one-class model, and every model
\* with one window shape; the long configuration (a Precomputed extractor,
\* step 1, the default batch size) has as many windows over one frame as
\* the overlap counter has values below zero; the short configurations
\* have a min_duration that lets a window shorter than duration through.
\* A run applies the pipeline to files with and without embedded features,
\* the embedded series as long as the signal or one frame longer.
LongDuration == 2 ^ (Int8Bits - 1)

LongLength == 2 * LongDuration - 1

\* batch_size=32 (extraction.py:70)
DefaultBatchSize == 32

WindowConfigs ==
    {Config(pre, d, s, b, Model(<<>>, <<1>>, 1)) :
        pre \in BOOLEAN, d \in 1 .. MaxDuration, s \in 1 .. MaxStep,
        b \in 1 .. MaxBatch}

ModelConfigs == {Config(pre, 2, 1, 2, m) : pre \in BOOLEAN, m \in Models}

LongConfig == Config(TRUE, LongDuration, 1, DefaultBatchSize, Model(<<>>, <<1>>, 1))

ShortConfigs ==
    {WithMinDuration(Config(pre, d, s, MaxBatch, Model(<<>>, <<1>>, 1)), m) :
        pre \in BOOLEAN, d \in 3 .. MaxDuration, s \in 1 .. MaxStep,
        m \in 1 .. (MaxDuration - 2)}

InitGrid ==
    /\ \/ \E c \in WindowConfigs, length \in 0 .. MaxLength :
            /\ cfg = [p \in {1} |-> c]
            /\ corpus = [u \in Uris |-> length]
       \/ \E c \in ModelConfigs, length \in {1, 3} :
            /\ cfg = [p \in {1} |-> c]
            /\ corpus = [u \in Uris |-> length]
       \/ /\ cfg = [p \in {1} |-> LongConfig]
          /\ corpus = [u \in Uris |-> LongLength]
       \/ \E c \in ShortConfigs, length \in 0 .. MaxLength :
            /\ c.min_duration[1] < c.duration - 1
            /\ cfg = [p \in {1} |-> c]
            /\ corpus = [u \in Uris |-> length]
    /\ Start

GridFiles(uri) ==
    {PlainFile(uri), EmbeddedFile(uri, corpus[uri]), EmbeddedFile(uri, corpus[uri] + 1)}

GridApply ==
    /\ \E uri \in 1 .. GridUris :
         \E file \in GridFiles(uri) : Apply(1, file, TRUE)
    /\ UNCHANGED <<log, repeats>>

NextGrid == GridApply

SpecGrid == InitGrid /\ [][NextGrid]_vars

\* ---------------------------------------------- SpecBatch: batching
\* Two pipelines that differ in their batch size only: the one of
\* pipeline 2 is 1.  Pipeline 1 takes every small configuration, or the
\* default batch size over a signal of fewer windows than a batch.  A run
\* applies either pipeline to a file of signal 1, with or without embedded
\* features, or iterates over the batches of its generator as constructed.
ShortLength == 10

DefaultConfig == Config(FALSE, 1, 1, DefaultBatchSize, Model(<<>>, <<1>>, 1))

Unbatched(c) == [c EXCEPT !.batch_size = 1]

InitBatch ==
    /\ \/ \E c \in WindowConfigs, length \in 0 .. MaxLength :
            /\ cfg = [p \in {1, 2} |-> IF p = 1 THEN c ELSE Unbatched(c)]
            /\ corpus = [u \in Uris |-> length]
       \/ /\ cfg = [p \in {1, 2} |->
                      IF p = 1 THEN DefaultConfig ELSE Unbatched(DefaultConfig)]
          /\ corpus = [u \in Uris |-> ShortLength]
    /\ Start

BatchApply ==
    /\ \E p \in DOMAIN cfg, file \in Files(1) : Apply(p, file, TRUE)
    /\ UNCHANGED <<log, repeats>>

BatchGenerate ==
    /\ \E p \in DOMAIN cfg, file \in Files(1) : Generate(p, file, TRUE)
    /\ UNCHANGED <<log, repeats>>

NextBatch == BatchApply \/ BatchGenerate

SpecBatch == InitBatch /\ [][NextBatch]_vars

\* ------------------------------------------ SpecPair: two pipelines
\* Two pipelines with on-demand extraction, constructed alike, in one
\* process.  Each processes the signals 1, 2, ... up to the capacity of a
\* cache in this order, and may process signal 1 again in between.
InitPair ==
    /\ cfg = [p \in {1, 2} |-> Config(FALSE, 2, 1, 2, Model(<<2>>, <<>>, 2))]
    /\ corpus = [u \in Uris |-> 2 + (u % 2)]
    /\ Start

\* the next signal of pipeline p
PairUri(p) == Len(preprocessed_[p].items) + 1

PairNew ==
    /\ \E p \in DOMAIN cfg :
         /\ PairUri(p) <= CACHE_MAXSIZE
         /\ Apply(p, PlainFile(PairUri(p)), TRUE)
    /\ UNCHANGED <<log, repeats>>

PairAgain ==
    /\ \E p \in DOMAIN cfg :
         /\ PairUri(p) > 1
         /\ Apply(p, PlainFile(1), TRUE)
    /\ UNCHANGED <<log, repeats>>

NextPair == PairNew \/ PairAgain

SpecPair == InitPair /\ [][NextPair]_vars

\* ------------------------------------------------------------ claims
\* the uris of the cache of pipeline p, least recently used first
CacheOrder(p) ==
    [i \in 1 .. Len(preprocessed_[p].items) |-> preprocessed_[p].items[i].uri]

Cached(p) == {CacheOrder(p)[i] : i \in 1 .. Len(CacheOrder(p))}

RECURSIVE Remove(_, _)
Remove(seq, x) ==
    IF seq = <<>> THEN <<>>
    ELSE IF Head(seq) = x THEN Remove(Tail(seq), x)
    ELSE <<Head(seq)>> \o Remove(Tail(seq), x)

\* the distinct uris of a log, ordered by their last access, oldest first
RECURSIVE Recency(_)
Recency(l) ==
    IF l = <<>> THEN <<>>
    ELSE Append(Remove(Recency(SubSeq(l, 1, Len(l) - 1)), l[Len(l)]), l[Len(l)])

LastN(seq, n) == SubSeq(seq, Max(1, Len(seq) - n + 1), Len(seq))

\* the uris 1, 2, ..., n in this order
Upto(n) == [i \in 1 .. n |-> i]

\* the uris read after the last read of uri in the log
RECURSIVE Since(_, _)
Since(l, uri) ==
    IF l = <<>> \/ l[Len(l)] = uri THEN {}
    ELSE {l[Len(l)]} \cup Since(SubSeq(l, 1, Len(l) - 1), uri)

OnDemand(c) == ~cfg[c.p].precomputed /\ ~HasFeatures(c.file)

Count(events, e) == Cardinality({i \in 1 .. Len(events) : events[i] = e})

\* C1: with on-demand extraction the cache of a pipeline never holds more
\* than CACHE_MAXSIZE (12) entries, nor two entries of one signal; once 13
\* distinct signals have been processed in order the first one is no longer
\* cached, and processing it again then invokes the extractor again.
C1_CacheBound ==
    \A p \in DOMAIN cfg :
        /\ Len(preprocessed_[p].items) <= CACHE_MAXSIZE
        /\ Cardinality(Cached(p)) = Len(preprocessed_[p].items)
        /\ log = Upto(CACHE_MAXSIZE + 1) => 1 \notin Cached(p)
        /\ (/\ call.file = PlainFile(1)
            /\ call.p = p
            /\ \/ log = Upto(CACHE_MAXSIZE + 1)
               \/ log = Append(Upto(CACHE_MAXSIZE + 1), 1))
           => Count(stats, "extract") = 1

C1_Witness ==
    /\ log = Append(Upto(CACHE_MAXSIZE + 1), 1)
    /\ call = Called("apply", 1, PlainFile(1), TRUE)
    /\ Count(stats, "extract") = 1
    /\ Len(preprocessed_[1].items) = CACHE_MAXSIZE

\* C2: the cache holds the CACHE_MAXSIZE most recently read signals in the
\* order of their last read (insert or hit, by preprocess or by apply): a
\* hit makes the signal the most recent entry and an eviction removes the
\* entry read longest ago.  After s1..s12, s1 again and s13, s2 is evicted
\* and s1 is still cached.
C2_LeastRecentlyUsed ==
    \A p \in DOMAIN cfg :
        /\ CacheOrder(p) = LastN(Recency(log), CACHE_MAXSIZE)
        /\ log = Upto(CACHE_MAXSIZE) \o <<1, CACHE_MAXSIZE + 1>>
           => 2 \notin Cached(p) /\ 1 \in Cached(p)

C2_Witness ==
    /\ log = Upto(CACHE_MAXSIZE) \o <<1, CACHE_MAXSIZE + 1>>
    /\ CacheOrder(1) = Tail(Tail(Upto(CACHE_MAXSIZE))) \o <<1, CACHE_MAXSIZE + 1>>

\* C3: with on-demand extraction a call extracts exactly once when the
\* signal is not cached and never when it is; an entry leaves the cache
\* only when a new signal is stored in a full cache; so a signal read from
\* the cache before is extracted again only after at least CACHE_MAXSIZE
\* other distinct signals were read in between.
C3_Step ==
    LET c == call'
        before == Cached(c.p)
        after == {preprocessed_'[c.p].items[i].uri :
                     i \in 1 .. Len(preprocessed_'[c.p].items)}
    IN  /\ OnDemand(c) =>
            Count(stats', "extract") = (IF c.file.uri \in before THEN 0 ELSE 1)
        /\ before \ after # {} =>
            /\ Cardinality(before) = CACHE_MAXSIZE
            /\ c.file.uri \in after \ before
            /\ Cardinality(before \ after) = 1
        /\ (Count(stats', "extract") > 0 /\ c.file.uri \in Used) =>
            Cardinality(Since(log, c.file.uri)) >= CACHE_MAXSIZE

C3_ExtractOnMissOnly == [][C3_Step]_vars

C3_Witness ==
    /\ OnDemand(call)
    /\ Count(stats, "extract") = 0
    /\ Count(stats, "getitem") > 0
    /\ Len(preprocessed_[1].items) = CACHE_MAXSIZE
    /\ Len(log) > CACHE_MAXSIZE + 1

\* the events of a call that create, read or write the cache
CacheEvents == {"create", "contains", "getitem", "setitem", "missing"}

\* C4: an apply on a file with embedded features, or of a pipeline with a
\* Precomputed extractor, never creates, reads or writes the cache, never
\* extracts, and leaves the cache and its order as they were.
C4_Step ==
    (call'.op = "apply" /\ ~OnDemand(call')) =>
        /\ Events(stats') \cap CacheEvents = {}
        /\ Count(stats', "extract") = 0
        /\ preprocessed_' = preprocessed_

C4_BypassLeavesCache == [][C4_Step]_vars

\* C5: when the extractor raises on a cache miss, the call raises the
\* extractor's error, the entries of the cache and their order are what
\* they were, the signal is not cached, and the next call on the signal
\* invokes the extractor again.
C5_Step ==
    /\ (Count(stats', "extract") > 0 /\ ~call'.ok) =>
          /\ result' = Raise("ExtractionError")
          /\ preprocessed_'[call'.p].items = preprocessed_[call'.p].items
          /\ call'.file.uri \notin Cached(call'.p)
    /\ (/\ Count(stats, "extract") > 0
        /\ ~call.ok
        /\ call'.p = call.p
        /\ call'.file = call.file) =>
          Count(stats', "extract") = 1

C5_FailureLeavesCache == [][C5_Step]_vars

C5_Witness ==
    /\ call.op = "apply"
    /\ ~call.ok
    /\ result = Raise("ExtractionError")
    /\ Len(preprocessed_[1].items) = CACHE_MAXSIZE

\* C6: an apply with a model that has neither n_classes nor output_dim
\* fails without having invoked the extractor or the model and without
\* having touched the cache.
C6_FailsBeforeAnyWork ==
    (call.op = "apply" /\ dimension(call.p) = <<>>) =>
        /\ result.kind = "error"
        /\ Count(stats, "extract") = 0
        /\ Count(stats, "model") = 0
        /\ Events(stats) \cap CacheEvents = {}

\* the windows apply scored for the file of the call (every generated
\* window: from_file is driven with incomplete=True), numbered from 0
ScoredWindows(c) == 0 .. (Len(Segments(c.p, c.file)) - 1)

\* the windows whose scores were added to frame f
Contributing(c, f) ==
    {i \in ScoredWindows(c) :
        i * cfg[c.p].step <= f /\ f < i * cfg[c.p].step + cfg[c.p].duration}

\* the score the model gives frame f of the file for class n, in whichever
\* window the frame is (the model scores each frame on its own)
FrameScore(c, f, n) == Score(Feature(SeriesOf(c.file), f), n)

\* C7: in the grid apply returns, a frame with one or more contributing
\* windows has the mean of the scores added to it: their sum divided by
\* their number.
C7_MeanOfContributions ==
    (call.op = "apply" /\ result.kind = "grid") =>
        \A f \in DOMAIN result.data :
            Contributing(call, f) # {} =>
                \A n \in DOMAIN result.data[f] :
                    /\ result.data[f][n].den = Cardinality(Contributing(call, f))
                    /\ result.data[f][n].num =
                          Cardinality(Contributing(call, f)) * FrameScore(call, f, n)

\* C8: in the grid apply returns, a frame that no window overlaps is zero in
\* every dimension, and defined (its divisor is not zero).
C8_UncoveredFramesAreZero ==
    (call.op = "apply" /\ result.kind = "grid") =>
        \A f \in DOMAIN result.data :
            Contributing(call, f) = {} =>
                \A n \in DOMAIN result.data[f] :
                    /\ result.data[f][n].num = 0
                    /\ result.data[f][n].den # 0

C8_Witness ==
    /\ call.op = "apply"
    /\ result.kind = "grid"
    /\ \E f \in DOMAIN result.data : Contributing(call, f) = {}
    /\ \E f \in DOMAIN result.data : Cardinality(Contributing(call, f)) = 2

\* C9: an apply on the file of the first apply of the run (same pipeline,
\* same file, same extractor) returns what the first apply returned,
\* whatever the cache holds when it starts.
C9_SameFileSameGrid ==
    (call.op = "apply" /\ first # <<>> /\ first[1].call = call) =>
        result = first[1].result

\* C10 as claimed: when no window is generated, apply returns a grid of 0
\* rows and `dimension` columns, without invoking the model and without
\* looking up the number of frames of the signal.
NoWindow(c) ==
    /\ c.op = "apply"
    /\ Count(stats, "extract") > 0 => c.ok
    /\ ScoredWindows(c) = {}

C10_EmptyIsNoError ==
    NoWindow(call) =>
        /\ result.kind = "grid"
        /\ result.n_frames = 0
        /\ <<result.dimension>> = dimension(call.p)
        /\ Count(stats, "model") = 0
        /\ Count(stats, "lookup") = 0

\* C10 as amended: when no window is generated and the model has an
\* n_classes or an output_dim, apply returns a grid of 0 rows and
\* `dimension` columns, without invoking the model and without looking up
\* the number of frames; when the model has neither, apply raises the
\* ValueError of `dimension`, also without model invocation or lookup.
C10_EmptyGrid ==
    NoWindow(call) =>
        /\ Count(stats, "model") = 0
        /\ Count(stats, "lookup") = 0
        /\ IF dimension(call.p) = <<>>
           THEN result = Raise("ValueError")
           ELSE result = Grid(0, dimension(call.p)[1], <<>>)

C10_Witness ==
    /\ NoWindow(call)
    /\ corpus[call.file.uri] > 0
    /\ HasFeatures(call.file)
    /\ ~cfg[call.p].precomputed
    /\ result = Grid(0, 2, <<>>)

\* the number of batches of n windows when every window is in a batch
Ceil(n, batch_size) == (n + batch_size - 1) \div batch_size

\* the call went as far as scoring the windows of its file
Reached(c) == c.op # "none" /\ result # Raise("ExtractionError")

\* the scores of window i (from 0) of the file of the call, as the model
\* gives them for the frames of the window
WindowScores(c, i) ==
    pack(c.p, <<process(c.p, Segments(c.p, c.file)[i + 1],
                        IF HasFeatures(c.file) \/ cfg[c.p].precomputed
                        THEN c.file
                        ELSE [c.file EXCEPT !.features = <<Extract(c.file)>>])>>)[1]

Other(p) == 3 - p

\* the windows of the file of the call that are the first of a batch
BatchHeads(c) == {i \in ScoredWindows(c) : i % cfg[c.p].batch_size = 0}

\* C12: when two pipelines that differ in batch size only hold the same
\* cache, an apply of one returns (or raises) what an apply of the other on
\* the same file returns; and an apply that gets to scoring invokes the
\* model once per batch.
C12_Step ==
    call'.op = "apply" =>
        /\ preprocessed_[1] = preprocessed_[2] =>
              result' = apply(Other(call'.p), call'.file, call'.ok).result
        /\ result' # Raise("ExtractionError") =>
              Count(stats', "model") = Cardinality(BatchHeads(call'))

C12_BatchSizeIrrelevant == [][C12_Step]_vars

C12_Witness ==
    /\ call.op = "apply"
    /\ cfg[call.p].batch_size > 1
    /\ Cardinality(ScoredWindows(call)) > cfg[call.p].batch_size
    /\ Cardinality(ScoredWindows(call)) % cfg[call.p].batch_size # 0
    /\ result.kind = "grid"
    /\ ~cfg[call.p].precomputed
    /\ preprocessed_[1] = preprocessed_[2]
    /\ result = apply(Other(call.p), call.file, call.ok).result

\* the series the windows of the file of the call are materialized from
\* (lines 163-173): the embedded one, else the one of the extractor
Source(c) ==
    IF HasFeatures(c.file) THEN c.file.features[1]
    ELSE IF cfg[c.p].precomputed
    THEN Series("precomputed", c.file.uri, corpus[c.file.uri])
    ELSE Extract(c.file)

Range(seq) == {seq[j] : j \in DOMAIN seq}

\* the frames the features of window i (from 0) were taken from
MaterialFrames(c, i) ==
    Range(MaterialIndices(Segments(c.p, c.file)[i + 1], cfg[c.p].duration,
                          Source(c).n_frames))

\* the frames the scores of window i (from 0) are added to
AggregationFrames(c, i) ==
    Range(CropIndices(Subsequence(c.p, i), cfg[c.p].duration))

\* C13: in an apply that gets to scoring, the scores of every window are
\* added to the frames the features of the window were taken from, be the
\* window in the middle of the signal, at its end, or the shorter last
\* window min_duration lets through.
C13_SameFrames ==
    (call.op = "apply" /\ Reached(call)) =>
        \A i \in ScoredWindows(call) :
            AggregationFrames(call, i) = MaterialFrames(call, i)

\* the windows generated for the file of the call that have the full
\* duration, and the shorter ones (numbered from 1, in generation order)
FullWindows(c) ==
    {i \in DOMAIN Segments(c.p, c.file) :
        Segments(c.p, c.file)[i].end - Segments(c.p, c.file)[i].start
            = cfg[c.p].duration}

ShortWindows(c) == DOMAIN Segments(c.p, c.file) \ FullWindows(c)

\* the multiples of step at which a window of the full duration fits in a
\* signal of the given length
FullStarts(length, duration, step) ==
    {t \in 0 .. length : t % step = 0 /\ t + duration <= length}

Holders(p, uri) ==
    {q \in DOMAIN cfg \ {p} : Contains(preprocessed_[q], uri)}

\* the entries of the caches of all the pipelines together
RECURSIVE Entries(_)
Entries(ps) ==
    IF ps = {} THEN 0
    ELSE LET q == CHOOSE q \in ps : TRUE
         IN  Len(preprocessed_[q].items) + Entries(ps \ {q})

\* C15 as claimed: the pipelines of a process have one and the same
\* cache: after every call they hold the same entries, an apply of a
\* signal another pipeline has cached does not invoke the extractor, and
\* the caches hold CACHE_MAXSIZE (12) entries at most all together.
C15_SharedStep ==
    /\ \A q \in DOMAIN cfg : preprocessed_'[q] = preprocessed_'[call'.p]
    /\ (call'.op = "apply" /\ OnDemand(call')
          /\ Holders(call'.p, call'.file.uri) # {}) =>
            Count(stats', "extract") = 0
    /\ Entries(DOMAIN cfg)' <= CACHE_MAXSIZE

C15_SharedCache == [][C15_SharedStep]_vars

\* C15 as amended: every pipeline has a cache of its own: a call of a
\* pipeline leaves the caches of the others as they are, an on-demand
\* apply invokes the extractor exactly when the cache of its own pipeline
\* has no entry for the signal, whatever the others hold, and each cache
\* holds CACHE_MAXSIZE (12) entries at most.
C15_Step ==
    /\ \A q \in DOMAIN cfg \ {call'.p} : preprocessed_'[q] = preprocessed_[q]
    /\ (call'.op = "apply" /\ OnDemand(call')) =>
            (Count(stats', "extract") = 1
                <=> ~Contains(preprocessed_[call'.p], call'.file.uri))
    /\ (call'.op = "apply" /\ OnDemand(call')) => Count(stats', "extract") <= 1
    /\ \A q \in DOMAIN cfg : Len(preprocessed_'[q].items) <= CACHE_MAXSIZE

C15_OwnCache == [][C15_Step]_vars

C15_Witness ==
    /\ call.op = "apply"
    /\ call.p = 2
    /\ Count(stats, "extract") = 1
    /\ Holders(2, call.file.uri) = {1}
    /\ Entries(DOMAIN cfg) > CACHE_MAXSIZE

\* C16: an apply that scored one or more windows does not fail to obtain
\* the number of frames of the grid, and the grid it returns has as many
\* frames as the series the windows were materialized from; with a
\* Precomputed extractor, with on-demand extraction, and with features
\* embedded in the file, whatever was applied before.
C16_GridOfTheSeries ==
    (call.op = "apply" /\ Count(stats, "model") > 0) =>
        /\ result # Raise("AttributeError")
        /\ result # Raise("KeyError")
        /\ result.kind = "grid" => result.n_frames = Source(call).n_frames

\* C17: in the grid apply returns, every frame is divided by the number of
\* windows whose scores were added to it (by 1 when there is none): the
\* overlap counter holds this number, however many windows overlap.
C17_CounterIsExact ==
    (call.op = "apply" /\ result.kind = "grid") =>
        \A f \in DOMAIN result.data :
            \A n \in DOMAIN result.data[f] :
                result.data[f][n].den = Divisor(Cardinality(Contributing(call, f)))

====
